---- MODULE Spec2Model ----
(***************************************************************************)
(* A model of server.js: an Express application whose route handlers read  *)
(* a MongoDB document store through the native driver and shape the        *)
(* result into a JSON response.                                            *)
(*                                                                         *)
(* JavaScript values are records [t, n, x, hi, lo, s]: t is the type tag,   *)
(* s the string content, a sequence of characters, and n, x, hi and lo the  *)
(* numeric content: a number is an IEEE 754 double with sign n, biased     *)
(* exponent x and fraction bits hi and lo.  A character of ASCII is the     *)
(* one-character string of itself and any other character is the string    *)
(* of its code point, "U+00A0" for the no-break space.  A document is a     *)
(* function from its field names to values; a field the document does not  *)
(* have is outside its DOMAIN.                                              *)
(***************************************************************************)
EXTENDS Integers, Sequences, FiniteSets, TLC

(* ------------------------------- bounds -------------------------------- *)

\* Longest string drawn for a field that a route coerces.
MaxStrLen == 2
\* Most documents drawn for the collection a specification varies.
MaxDocs == 2
\* Largest number stored in a numeric field.
MaxNum == 2
\* Most count queries of one market-surveys request that fail where two
\* clients are interleaved.
MaxFailures == 1

(* --------------------------- JavaScript values ------------------------- *)

Undefined == [t |-> "undefined", n |-> 0, x |-> 0, hi |-> 0, lo |-> 0, s |-> <<>>]
Null == [t |-> "null", n |-> 0, x |-> 0, hi |-> 0, lo |-> 0, s |-> <<>>]
NaN == [t |-> "nan", n |-> 0, x |-> 0, hi |-> 0, lo |-> 0, s |-> <<>>]
Bool(b) ==
  [t |-> "boolean", n |-> IF b THEN 1 ELSE 0, x |-> 0, hi |-> 0, lo |-> 0, s |-> <<>>]
\* Infinity (sign 1) and -Infinity (sign -1).
Inf(sign) == [t |-> "infinity", n |-> sign, x |-> 0, hi |-> 0, lo |-> 0, s |-> <<>>]
Str(cs) == [t |-> "string", n |-> 0, x |-> 0, hi |-> 0, lo |-> 0, s |-> cs]
\* The query-operator object {"$ne": <string cs>} of a JSON request body.
NeOp(cs) == [t |-> "$ne", n |-> 0, x |-> 0, hi |-> 0, lo |-> 0, s |-> cs]
\* A built-in function is a value of type "function" with s the name its
\* source text shows, and Object.prototype one of type "object".

(* Natural numbers of any size are sequences of limbs, the digits of base  *)
(* 1024, the least significant first and the last one not 0; <<>> is 0.     *)

Limb == 1024

\* The natural number whose limbs f lists, top zeros dropped.
Strip(f) ==
  LET n == Cardinality(DOMAIN f)
  IN  IF n = 0 \/ f[n] # 0 THEN SubSeq(f, 1, n)
      ELSE SubSeq(f, 1, Cardinality({i \in 1..n : \E j \in i..n : f[j] # 0}))

\* The natural number k.
BigOf(k) ==
  Strip(<<k % Limb, (k \div Limb) % Limb, (k \div (Limb * Limb)) % Limb,
          k \div (Limb * Limb * Limb)>>)

\* The number of bits of a.
BitLen(a) ==
  IF a = <<>> THEN 0
  ELSE 10 * (Len(a) - 1) + Cardinality({j \in 0..9 : 2^j <= a[Len(a)]})

\* a * 2^k for k >= 0, and a with its low -k bits dropped for k < 0.
BigShift(a, k) ==
  LET At(i) == IF i >= 1 /\ i <= Len(a) THEN a[i] ELSE 0
      Up(limbs, bits) ==
        Strip([i \in 1..(Len(a) + limbs + 1) |->
                 IF i <= limbs THEN 0
                 ELSE ((At(i - limbs) * 2^bits) % Limb)
                        + ((At(i - limbs - 1) * 2^bits) \div Limb)])
      Down(limbs, bits) ==
        Strip([i \in 1..(IF Len(a) > limbs THEN Len(a) - limbs ELSE 0) |->
                 (At(i + limbs) \div 2^bits)
                   + ((At(i + limbs + 1) % 2^bits) * 2^(10 - bits))])
  IN  IF a = <<>> \/ k = 0 THEN a
      ELSE IF k > 0 THEN Up(k \div 10, k % 10)
      ELSE Down((0 - k) \div 10, (0 - k) % 10)

\* a + b: limb by limb, with a carry into a limb when some limb below
\* overflows and every limb between is full.
BigAdd(a, b) ==
  LET Carried(t) ==
        Strip([i \in DOMAIN t |->
                 (t[i] + (IF \E j \in 1..(i - 1) :
                               t[j] >= Limb /\ \A k \in (j + 1)..(i - 1) : t[k] = Limb - 1
                          THEN 1 ELSE 0)) % Limb])
  IN  IF b = <<>> THEN a
      ELSE IF a = <<>> THEN b
      ELSE Carried([i \in 1..((IF Len(a) > Len(b) THEN Len(a) ELSE Len(b)) + 1) |->
                      (IF i <= Len(a) THEN a[i] ELSE 0)
                        + (IF i <= Len(b) THEN b[i] ELSE 0)])

\* a - b, for a >= b: limb by limb, with a borrow from a limb when some
\* limb below falls short and every limb between is even.
BigSub(a, b) ==
  LET Borrowed(t) ==
        Strip([i \in DOMAIN t |->
                 (t[i] - (IF \E j \in 1..(i - 1) :
                               t[j] < 0 /\ \A k \in (j + 1)..(i - 1) : t[k] = 0
                          THEN 1 ELSE 0) + Limb) % Limb])
  IN  IF b = <<>> THEN a
      ELSE Borrowed([i \in 1..Len(a) |-> a[i] - (IF i <= Len(b) THEN b[i] ELSE 0)])

\* a < b
BigLess(a, b) ==
  IF Len(a) # Len(b) THEN Len(a) < Len(b)
  ELSE \E i \in 1..Len(a) :
         a[i] < b[i] /\ \A j \in (i + 1)..Len(a) : a[j] = b[j]

\* a * b: the column sums of the limb products, which stay below 2^31,
\* split into their three limbs.
BigMul(a, b) ==
  LET RECURSIVE Column(_, _, _)
      Column(i, from, to) ==
        IF from > to THEN 0
        ELSE IF from = to THEN a[from] * b[i + 1 - from]
        ELSE Column(i, from, (from + to) \div 2)
               + Column(i, (from + to) \div 2 + 1, to)
      Split(c) ==
        BigAdd(BigAdd(Strip([i \in DOMAIN c |-> c[i] % Limb]),
                      Strip([i \in DOMAIN c |-> IF i = 1 THEN 0 ELSE (c[i - 1] \div Limb) % Limb])),
               Strip([i \in DOMAIN c |-> IF i <= 2 THEN 0 ELSE c[i - 2] \div (Limb * Limb)]))
  IN  IF a = <<>> \/ b = <<>> THEN <<>>
      ELSE Split([i \in 1..(Len(a) + Len(b) + 2) |->
                    Column(i, IF i > Len(b) THEN i + 1 - Len(b) ELSE 1,
                              IF i < Len(a) THEN i ELSE Len(a))])

RECURSIVE BigPow(_, _)
\* b^k, by squaring.
BigPow(b, k) ==
  IF k = 0 THEN <<1>>
  ELSE IF k % 2 = 1 THEN BigMul(BigPow(b, k - 1), b)
  ELSE BigPow(BigMul(b, b), k \div 2)

RECURSIVE LongDivision(_, _, _)
\* The limbs of the quotient of A by D from limb i up, as q, and what is
\* left of A, as r.  The top limb of D is 512 or more, so that the top two
\* limbs of what is left over the top limb of D are the limb of the
\* quotient or up to two more.
LongDivision(A, D, i) ==
  LET At(r, j) == IF j <= Len(r) THEN r[j] ELSE 0
      Guess(r, n) ==
        IF (At(r, n + 1) * Limb + At(r, n)) \div D[Len(D)] < Limb
        THEN (At(r, n + 1) * Limb + At(r, n)) \div D[Len(D)]
        ELSE Limb - 1
      \* the most of the limbs that P holds D's multiple of, within r
      Digit(r, P) == CHOOSE c \in DOMAIN P :
                       /\ ~BigLess(r, P[c])
                       /\ \A e \in DOMAIN P : e > c => BigLess(r, P[e])
      Take(above, P, digit) ==
        [q |-> IF above.q = <<>> /\ digit = 0 THEN <<>> ELSE <<digit>> \o above.q,
         r |-> BigSub(above.r, P[digit])]
      Taken(above, P) == Take(above, P, Digit(above.r, P))
      \* D times the guess and times the two limbs under it, at limb i
      Place(above, most) ==
        Taken(above, [c \in {c \in 0..most : c + 2 >= most} |->
                        BigShift(BigMul(D, BigOf(c)), 10 * (i - 1))])
      Placed(above) == Place(above, Guess(above.r, Len(D) + i - 1))
  IN  IF i > Len(A) - Len(D) + 1 THEN [q |-> <<>>, r |-> A]
      ELSE Placed(LongDivision(A, D, i + 1))

\* The quotient q and remainder r of a by d, by long division a limb of q
\* at a time from the top, both scaled until the top limb of d is 512 or
\* more.
BigDivMod(a, d) ==
  LET norm == (10 - (BitLen(d) % 10)) % 10
      Unscaled(last) == [q |-> last.q, r |-> BigShift(last.r, 0 - norm)]
  IN  IF BigLess(a, d) THEN [q |-> <<>>, r |-> a]
      ELSE Unscaled(LongDivision(BigShift(a, norm), BigShift(d, norm), 1))

(* A number is an IEEE 754 double, held as its fields: n is 1 or -1 for the *)
(* sign, x the biased exponent (0..2046), hi the upper and lo the lower 26  *)
(* bits of the 52-bit fraction.  Both zeros are numbers; NaN and the        *)
(* infinities have tags of their own.                                       *)

\* The double nearest to sign * p.N * 2^p.E, ties to even; p.sticky says
\* that the exact value lies a little above p.N * 2^p.E, by less than 2^p.E.
Double(sign, p) ==
  LET \* the integer that the three low limbs of a stand for
      Low(a) == (IF Len(a) >= 1 THEN a[1] ELSE 0)
                  + (IF Len(a) >= 2 THEN a[2] * Limb ELSE 0)
                  + (IF Len(a) >= 3 THEN a[3] * Limb * Limb ELSE 0)
      Bit(i) == (p.N[(i - 1) \div 10 + 1] \div 2^((i - 1) % 10)) % 2
      \* the exponent of the unit that leaves 53 bits of p.N, or that of the
      \* least double
      Quantum(bits) == IF bits + p.E - 53 > 0 - 1074 THEN bits + p.E - 53 ELSE 0 - 1074
      \* p.N in units of 2^e, what is below the unit dropped
      Cut(e) == [e |-> e, m |-> BigShift(p.N, p.E - e)]
      \* one more when what was dropped is above half a unit, or is half a
      \* unit and the units are odd
      Round(c) ==
        IF /\ c.e - p.E > 0 /\ c.e - p.E <= BitLen(p.N) /\ Bit(c.e - p.E) = 1
           /\ \/ p.sticky
              \/ \E i \in 1..(c.e - p.E - 1) : Bit(i) = 1
              \/ c.m # <<>> /\ c.m[1] % 2 = 1
        THEN [c EXCEPT !.m = BigAdd(c.m, <<1>>)]
        ELSE c
      Carry(c) == IF BitLen(c.m) = 54 THEN [e |-> c.e + 1, m |-> BigShift(c.m, 0 - 1)] ELSE c
      Pack(c) ==
        IF BitLen(c.m) = 53 /\ c.e + 1075 > 2046 THEN Inf(sign)
        ELSE [t |-> "number", n |-> sign,
              x |-> IF BitLen(c.m) = 53 THEN c.e + 1075 ELSE 0,
              hi |-> Low(BigShift(c.m, 0 - 26)) % 2^26, lo |-> Low(c.m) % 2^26, s |-> <<>>]
  IN  Pack(Carry(Round(Cut(Quantum(BitLen(p.N))))))

\* The integer k, of 31 bits at most: its top bit is implied and the bits
\* under it are the top of the fraction.
Num(k) ==
  LET a == IF k < 0 THEN 0 - k ELSE k
      b == Cardinality({j \in 1..30 : 2^j <= a})
  IN  [t |-> "number", n |-> IF k < 0 THEN 0 - 1 ELSE 1,
       x |-> IF k = 0 THEN 0 ELSE 1023 + b,
       hi |-> IF k = 0 THEN 0
              ELSE IF b <= 26 THEN (a - 2^b) * 2^(26 - b) ELSE (a - 2^b) \div 2^(b - 26),
       lo |-> IF b <= 26 THEN 0 ELSE ((a - 2^b) % 2^(b - 26)) * 2^(52 - b),
       s |-> <<>>]

\* A number v as m * 2^e, with m its significand and the sign left aside.
Unpack(v) ==
  [m |-> BigAdd(BigShift(BigOf(v.hi + (IF v.x > 0 THEN 2^26 ELSE 0)), 26), BigOf(v.lo)),
   e |-> IF v.x > 0 THEN v.x - 1075 ELSE 0 - 1074]

IsZero(v) == v.t = "number" /\ v.x = 0 /\ v.hi = 0 /\ v.lo = 0

\* item.f : the field's value, or undefined when the document lacks it.
Get(doc, f) == IF f \in DOMAIN doc THEN doc[f] ELSE Undefined

\* The conversion to boolean that || and if apply.
Truthy(v) ==
  CASE v.t = "undefined" -> FALSE
    [] v.t = "null" -> FALSE
    [] v.t = "nan" -> FALSE
    [] v.t = "boolean" -> v.n = 1
    [] v.t = "number" -> ~IsZero(v)
    [] v.t = "string" -> v.s # <<>>
    [] OTHER -> TRUE

\* a || b
Or(a, b) == IF Truthy(a) THEN a ELSE b

(* A string is a sequence of characters.  A character of ASCII is the       *)
(* one-character string of itself; any other character is written by its   *)
(* code point, as "U+00A0" or "U+FEFF".                                     *)

Digits == <<"0", "1", "2", "3", "4", "5", "6", "7", "8", "9">>

IsDigit(ch) == \E i \in 1..10 : Digits[i] = ch

DigitVal(ch) == (CHOOSE i \in 1..10 : Digits[i] = ch) - 1

\* The digits of the bases up to sixteen, in either case.
RadixDigits ==
  <<{"0"}, {"1"}, {"2"}, {"3"}, {"4"}, {"5"}, {"6"}, {"7"}, {"8"}, {"9"},
    {"a", "A"}, {"b", "B"}, {"c", "C"}, {"d", "D"}, {"e", "E"}, {"f", "F"}>>

RECURSIVE BigFromDigits(_, _)
\* The natural number a run of digits of the given base spells: that of
\* its upper part times the weight of the lower part, and that of the
\* lower part.
BigFromDigits(cs, base) ==
  LET lower == Len(cs) \div 2
  IN  IF cs = <<>> THEN <<>>
      ELSE IF Len(cs) = 1
           THEN BigOf((CHOOSE i \in 1..16 : cs[1] \in RadixDigits[i]) - 1)
      ELSE BigAdd(BigMul(BigFromDigits(SubSeq(cs, 1, Len(cs) - lower), base),
                         BigPow(BigOf(base), lower)),
                  BigFromDigits(SubSeq(cs, Len(cs) - lower + 1, Len(cs)), base))

\* StrWhiteSpaceChar: the WhiteSpace and LineTerminator characters, that is
\* tab, line feed, vertical tab (as itself or by its code point), form feed,
\* carriage return, space, no-break space, the byte order mark, the line
\* and paragraph separators and the other space separators of Unicode.
IsSpace(ch) ==
  ch \in {"\t", "\n", "", "U+000B", "\f", "\r", " ", "U+00A0", "U+1680",
          "U+2000", "U+2001", "U+2002", "U+2003", "U+2004", "U+2005", "U+2006",
          "U+2007", "U+2008", "U+2009", "U+200A", "U+2028", "U+2029", "U+202F",
          "U+205F", "U+3000", "U+FEFF"}

\* cs without the white space at its two ends: without its prefixes and
\* suffixes that are white space throughout.
Trim(cs) ==
  LET lead == Cardinality({i \in 1..Len(cs) : \A j \in 1..i : IsSpace(cs[j])})
      trail == Cardinality({i \in 1..Len(cs) : \A j \in i..Len(cs) : IsSpace(cs[j])})
  IN  IF lead = Len(cs) THEN <<>> ELSE SubSeq(cs, lead + 1, Len(cs) - trail)

AllDigits(cs) == \A i \in 1..Len(cs) : IsDigit(cs[i])

RECURSIVE DecimalVal(_)
DecimalVal(cs) ==
  IF cs = <<>> THEN 0
  ELSE 10 * DecimalVal(SubSeq(cs, 1, Len(cs) - 1)) + DigitVal(cs[Len(cs)])

\* The base a NonDecimalIntegerLiteral prefix announces, 0 for no such prefix.
RadixOf(cs) ==
  IF Len(cs) < 2 \/ cs[1] # "0" THEN 0
  ELSE CASE cs[2] \in {"x", "X"} -> 16
         [] cs[2] \in {"o", "O"} -> 8
         [] cs[2] \in {"b", "B"} -> 2
         [] OTHER -> 0

\* 0x, 0o or 0b followed by at least one digit of that base; no sign.
IsRadixLiteral(cs) ==
  /\ RadixOf(cs) # 0
  /\ Len(cs) >= 3
  /\ \A i \in 3..Len(cs) : \E k \in 1..RadixOf(cs) : cs[i] \in RadixDigits[k]

InfinityText == <<"I", "n", "f", "i", "n", "i", "t", "y">>

\* The places of ch in cs.
Places(cs, ch) == {i \in 1..Len(cs) : cs[i] = ch}

\* The part of an unsigned decimal literal before its exponent.
Mantissa(cs) ==
  LET es == Places(cs, "e") \cup Places(cs, "E")
  IN  IF es = {} THEN cs ELSE SubSeq(cs, 1, (CHOOSE i \in es : \A j \in es : i <= j) - 1)

\* What follows the first e or E, <<>> when there is none.
Exponent(cs) ==
  LET es == Places(cs, "e") \cup Places(cs, "E")
  IN  IF es = {} THEN <<>>
      ELSE SubSeq(cs, (CHOOSE i \in es : \A j \in es : i <= j) + 1, Len(cs))

\* The digits before the point of a mantissa.
IntegerPart(m) ==
  IF Places(m, ".") = {} THEN m
  ELSE SubSeq(m, 1, (CHOOSE i \in Places(m, ".") : TRUE) - 1)

\* The digits after the point of a mantissa.
FractionPart(m) ==
  IF Places(m, ".") = {} THEN <<>>
  ELSE SubSeq(m, (CHOOSE i \in Places(m, ".") : TRUE) + 1, Len(m))

\* The value of an ExponentPart without its e.  An exponent of more than
\* nine digits is taken for one of nine nines: a string has fewer than 2^30
\* characters, so that with any mantissa either is beyond every double.
ExponentVal(ex) ==
  LET \* cs without the zeros it begins with
      Significant(cs) ==
        SubSeq(cs, 1 + Cardinality({i \in 1..Len(cs) : \A j \in 1..i : cs[j] = "0"}),
               Len(cs))
      digits == Significant(IF ex # <<>> /\ Head(ex) \in {"-", "+"} THEN Tail(ex) ELSE ex)
      size == IF Len(digits) > 9 THEN 999999999 ELSE DecimalVal(digits)
  IN  IF ex # <<>> /\ Head(ex) = "-" THEN 0 - size ELSE size

\* StrUnsignedDecimalLiteral other than Infinity: a mantissa, which is
\* DecimalDigits . DecimalDigits(opt), . DecimalDigits or DecimalDigits, and
\* after an e an optional sign and at least one digit.
IsUnsignedDecimal(cs) ==
  LET m == Mantissa(cs)
      ex == Exponent(cs)
      digits == IF ex # <<>> /\ Head(ex) \in {"-", "+"} THEN Tail(ex) ELSE ex
  IN  /\ Cardinality(Places(m, ".")) <= 1
      /\ AllDigits(IntegerPart(m))
      /\ AllDigits(FractionPart(m))
      /\ Len(IntegerPart(m)) + Len(FractionPart(m)) >= 1
      /\ m # cs => digits # <<>> /\ AllDigits(digits)

\* The value of an unsigned decimal literal: the double nearest to the
\* natural number D its digits spell times ten to the scale, which is the
\* exponent less the number of fraction digits.
\* The digits of a decimal literal as the natural number D, and the power
\* of ten that scales D to the literal's value.
DecimalRead(cs) ==
  [D |-> BigFromDigits(IntegerPart(Mantissa(cs)) \o FractionPart(Mantissa(cs)), 10),
   scale |-> ExponentVal(Exponent(cs)) - Len(FractionPart(Mantissa(cs)))]

\* Whether v.D * 10^v.scale is surely above every double (1), surely zero
\* or below half the least double (-1), or to be worked out (0).  D of b
\* bits is 2^(b-1) or more and less than 2^b, and 3/10 < log10(2) < 1/3, so
\* that D is 10^(3(b-1)/10) or more and less than 10^(b/3); every double
\* is less than 10^309 and half the least double is more than 10^-324.
DecimalRange(v) ==
  IF v.D = <<>> \/ (BitLen(v.D) \div 3) + 1 + v.scale <= 0 - 324 THEN 0 - 1
  ELSE IF (((BitLen(v.D) - 1) * 3) \div 10) + v.scale >= 309 THEN 1
  ELSE 0

\* v.D * 10^v.scale as N * 2^E, with tens the power of ten to multiply or to
\* divide by.  The division is of D in units of 2^-wanted, what is below
\* the unit dropped, which leaves a quotient of 56 or 57 bits, or of fewer
\* in units of 2^-1076; sticky tells whether dropping or dividing left
\* anything over.  A value above every double has E past the largest
\* exponent, and one below half the least double is zero.
DecimalParts(v, tens) ==
  LET wanted == IF 56 + BitLen(tens) - BitLen(v.D) > 1076 THEN 1076
                ELSE 56 + BitLen(tens) - BitLen(v.D)
      Quotient(units, dm) ==
        [N |-> dm.q, E |-> 0 - wanted,
         sticky |-> dm.r # <<>> \/ (wanted < 0 /\ BigShift(units, 0 - wanted) # v.D)]
      Divided(units) == Quotient(units, BigDivMod(units, tens))
  IN  IF DecimalRange(v) < 0 THEN [N |-> <<>>, E |-> 0, sticky |-> FALSE]
      ELSE IF DecimalRange(v) > 0 THEN [N |-> <<1>>, E |-> 1024, sticky |-> FALSE]
      ELSE IF v.scale >= 0 THEN [N |-> BigMul(v.D, tens), E |-> 0, sticky |-> FALSE]
      ELSE Divided(BigShift(v.D, wanted))

\* The double nearest v.D * 10^v.scale.
ScaledDecimal(v) ==
  Double(1, DecimalParts(v,
            IF DecimalRange(v) # 0 THEN <<1>>
            ELSE BigPow(<<10>>, IF v.scale >= 0 THEN v.scale ELSE 0 - v.scale)))

\* The value of an unsigned decimal literal: the double nearest it.
UnsignedDecimalVal(cs) == ScaledDecimal(DecimalRead(cs))

\* StringNumericLiteral, white space trimmed off: a prefixed integer, or an
\* optionally signed decimal literal or Infinity.
IsNumericLiteral(cs) ==
  LET signed == cs # <<>> /\ Head(cs) \in {"-", "+"}
      magnitude == IF signed THEN Tail(cs) ELSE cs
  IN  \/ cs = <<>>
      \/ IsRadixLiteral(cs)
      \/ magnitude = InfinityText
      \/ IsUnsignedDecimal(magnitude)

\* Number(<string>): white space is trimmed off, the empty string is 0, a
\* numeric literal is the double nearest its value and anything else NaN.
StringToNumber(cs) ==
  LET t == Trim(cs)
  IN  IF t = <<>> THEN Num(0)
      ELSE IF IsRadixLiteral(t)
           THEN Double(1, [N |-> BigFromDigits(SubSeq(t, 3, Len(t)), RadixOf(t)),
                           E |-> 0, sticky |-> FALSE])
      ELSE IF ~IsNumericLiteral(t) THEN NaN
      ELSE IF Tail(t) = InfinityText THEN Inf(IF Head(t) = "-" THEN 0 - 1 ELSE 1)
      ELSE IF t = InfinityText THEN Inf(1)
      ELSE [UnsignedDecimalVal(IF Head(t) \in {"-", "+"} THEN Tail(t) ELSE t)
            EXCEPT !.n = IF Head(t) = "-" THEN 0 - 1 ELSE 1]

\* Number(v)
ToNumber(v) ==
  CASE v.t = "undefined" -> NaN
    [] v.t = "null" -> Num(0)
    [] v.t = "boolean" -> Num(v.n)
    [] v.t = "number" -> v
    [] v.t = "infinity" -> v
    [] v.t = "string" -> StringToNumber(v.s)
    [] OTHER -> NaN

\* Number(v) || 0
NumberOrZero(v) == Or(ToNumber(v), Num(0))

RECURSIVE NatToString(_)
NatToString(k) ==
  IF k < 10 THEN <<Digits[k + 1]>>
  ELSE NatToString(k \div 10) \o <<Digits[(k % 10) + 1]>>

\* The shortest run of decimal digits that reads back as the number v, which
\* is not zero, and the power of ten n with |v| = 0.digits * 10^n.  With v
\* as r / s and half the gaps to the doubles next to v as l / s below and
\* h / s above, the power of ten is guessed from the bits of v and set
\* right, and digits are generated until what is left is within the gaps;
\* of two last digits that will do the nearer is taken, and the even one
\* when they are as near.
Tenfold(c) ==
  [f \in DOMAIN c |-> IF f \in {"r", "h", "l"} THEN BigMul(c[f], <<10>>) ELSE c[f]]

\* The next digit drawn from c.r: the most of c.s that c.r holds.
Draw(c) ==
  [c EXCEPT !.d = Cardinality({d \in 1..9 : ~BigLess(c.r, BigMul(c.s, <<d>>))}),
            !.r = BigSub(c.r, BigMul(c.s, BigOf(
                    Cardinality({d \in 1..9 : ~BigLess(c.r, BigMul(c.s, <<d>>))}))))]

RECURSIVE Generate(_)
\* The digits from c.d on.  They end where what is left, c.r, is within c.l
\* of the number from below or within c.h from above; where both hold the
\* last digit is the nearer one, and the even one when they are as near.
Generate(c) ==
  LET low == IF c.even THEN ~BigLess(c.l, c.r) ELSE BigLess(c.r, c.l)
      high == IF c.even THEN ~BigLess(BigAdd(c.r, c.h), c.s)
                        ELSE BigLess(c.s, BigAdd(c.r, c.h))
  IN  IF ~low /\ ~high THEN <<c.d>> \o Generate(Draw(Tenfold(c)))
      ELSE IF low /\ ~high THEN <<c.d>>
      ELSE IF ~low /\ high THEN <<c.d + 1>>
      ELSE IF BigLess(BigShift(c.r, 1), c.s) THEN <<c.d>>
      ELSE IF BigLess(c.s, BigShift(c.r, 1)) THEN <<c.d + 1>>
      ELSE <<c.d + (c.d % 2)>>

RECURSIVE ScaleDown(_)
\* c.s is above the number: r, h and l are taken tenfold until the first
\* digit is not zero.
ScaleDown(c) ==
  IF IF c.even THEN ~BigLess(BigAdd(c.r, c.h), c.s) ELSE BigLess(c.s, BigAdd(c.r, c.h))
  THEN [digits |-> Generate(Draw(c)), n |-> c.k]
  ELSE ScaleDown(Tenfold([c EXCEPT !.k = c.k - 1]))

RECURSIVE ScaleUp(_)
\* c.s is taken tenfold until it is above the number.
ScaleUp(c) ==
  IF IF c.even THEN ~BigLess(BigAdd(c.r, c.h), c.s) ELSE BigLess(c.s, BigAdd(c.r, c.h))
  THEN ScaleUp([c EXCEPT !.s = BigMul(c.s, <<10>>), !.k = c.k + 1])
  ELSE ScaleDown(Tenfold(c))

\* The number u.m * 2^u.e over a power of ten near it, as r over s, with h
\* and l half the gaps to the doubles above and below in the units of r.
\* The gap below a power of two is half the one above.
ShortestStart(u, v, tens) ==
  LET extra == IF v.x > 1 /\ v.hi = 0 /\ v.lo = 0 THEN 1 ELSE 0
      up == IF u.e >= 0 THEN u.e ELSE 0
      down == IF u.e >= 0 THEN 0 ELSE 0 - u.e
      over == IF u.k < 0 THEN tens ELSE <<1>>
  IN  [r |-> BigMul(u.m, BigShift(over, up + 1 + extra)),
       s |-> BigShift(IF u.k > 0 THEN tens ELSE <<1>>, down + 1 + extra),
       h |-> BigShift(over, up + extra),
       l |-> BigShift(over, up),
       d |-> 0, k |-> u.k, even |-> v.lo % 2 = 0]

\* The fewest decimal digits that read back as v and the place n of the
\* decimal point after them, for a finite v that is not zero: v is unpacked,
\* with k the power of ten of its first digit, within one.
ShortestDigits(v) ==
  LET u == [m |-> Unpack(v).m, e |-> Unpack(v).e,
            k |-> ((BitLen(Unpack(v).m) - 1 + Unpack(v).e) * 30103) \div 100000]
  IN  ScaleUp(ShortestStart(u, v, BigPow(<<10>>, IF u.k < 0 THEN 0 - u.k ELSE u.k)))

\* Number::toString: plain notation for a number from 0.000001 up to 10^21,
\* exponent notation outside.
NumberToString(v) ==
  LET Text(ds, k, n) ==
        IF k <= n /\ n <= 21 THEN ds \o [i \in 1..(n - k) |-> "0"]
        ELSE IF 0 < n /\ n <= 21 THEN SubSeq(ds, 1, n) \o <<".">> \o SubSeq(ds, n + 1, k)
        ELSE IF 0 - 6 < n /\ n <= 0 THEN <<"0", ".">> \o [i \in 1..(0 - n) |-> "0"] \o ds
        ELSE <<Head(ds)>> \o (IF k > 1 THEN <<".">> \o Tail(ds) ELSE <<>>)
             \o (IF n > 0 THEN <<"e", "+">> \o NatToString(n - 1)
                          ELSE <<"e", "-">> \o NatToString(1 - n))
      Of(sd) == Text([i \in 1..Len(sd.digits) |-> Digits[sd.digits[i] + 1]],
                     Len(sd.digits), sd.n)
  IN  IF IsZero(v) THEN <<"0">>
      ELSE (IF v.n < 0 THEN <<"-">> ELSE <<>>) \o Of(ShortestDigits(v))

\* String(v), which is also what + makes of v beside a string.
StringOf(v) ==
  CASE v.t = "string" -> v.s
    [] v.t = "number" -> NumberToString(v)
    [] v.t = "infinity" -> (IF v.n < 0 THEN <<"-">> ELSE <<>>) \o InfinityText
    [] v.t = "boolean" -> IF v.n = 1 THEN <<"t", "r", "u", "e">>
                                     ELSE <<"f", "a", "l", "s", "e">>
    [] v.t = "null" -> <<"n", "u", "l", "l">>
    [] v.t = "nan" -> <<"N", "a", "N">>
    [] v.t = "undefined" -> <<"u", "n", "d", "e", "f", "i", "n", "e", "d">>
    [] v.t = "function" -> <<"f", "u", "n", "c", "t", "i", "o", "n", " ">> \o v.s \o <<"(", ")", " ", "{", " ", "[", "n", "a", "t", "i", "v", "e", " ", "c", "o", "d", "e", "]", " ", "}">>
    [] OTHER -> <<"[", "o", "b", "j", "e", "c", "t", " ", "O", "b", "j", "e", "c", "t", "]">>

\* The sum or difference of A and B, both worth 2^e a unit, with the signs
\* of a and b.
SignedSum(a, b, A, B, e) ==
  Double(IF a.n = b.n \/ BigLess(B, A) THEN a.n ELSE IF A = B THEN 1 ELSE b.n,
         [N |-> IF a.n = b.n THEN BigAdd(A, B)
                ELSE IF BigLess(A, B) THEN BigSub(B, A) ELSE BigSub(A, B),
          E |-> e, sticky |-> FALSE])

\* a + b for finite numbers that are not zero, ua and ub being a and b
\* unpacked.  A number below a thousandth of the gap between the doubles at
\* the other leaves the other as it is.
FinitePlus(a, b, ua, ub, e) ==
  IF ua.e - ub.e > 64 THEN a
  ELSE IF ub.e - ua.e > 64 THEN b
  ELSE SignedSum(a, b, BigShift(ua.m, ua.e - e), BigShift(ub.m, ub.e - e), e)

\* a + b for numbers: the double nearest the exact sum.  An infinity absorbs
\* a number, and opposite infinities make NaN.
NumberPlus(a, b) ==
  CASE a.t = "nan" \/ b.t = "nan" -> NaN
    [] a.t = "infinity" /\ b.t = "infinity" -> IF a.n = b.n THEN a ELSE NaN
    [] a.t = "infinity" -> a
    [] b.t = "infinity" -> b
    [] IsZero(a) /\ IsZero(b) -> IF a.n = b.n THEN a ELSE [a EXCEPT !.n = 1]
    [] IsZero(a) -> b
    [] IsZero(b) -> a
    [] OTHER -> FinitePlus(a, b, Unpack(a), Unpack(b),
                           (IF a.x < b.x THEN IF a.x > 0 THEN a.x ELSE 1
                            ELSE IF b.x > 0 THEN b.x ELSE 1) - 1075)

\* a + b: concatenation when either side is a string, a function or an
\* object, addition of the two as numbers otherwise.
Plus(a, b) ==
  IF {a.t, b.t} \cap {"string", "function", "object"} # {}
  THEN Str(StringOf(a) \o StringOf(b))
  ELSE NumberPlus(ToNumber(a), ToNumber(b))

\* JSON.stringify of an array element: undefined, NaN and the infinities
\* become null, and -0 is written 0.
JsonElem(v) ==
  IF v.t \in {"undefined", "nan", "infinity", "function"} THEN Null
  ELSE IF IsZero(v) THEN Num(0)
  ELSE v

\* JSON.stringify of an object: a property whose value is undefined is dropped.
JsonObject(o) ==
  LET keep == {k \in DOMAIN o : o[k].t \notin {"undefined", "function"}}
  IN  [k \in keep |-> JsonElem(o[k])]

(* ------------------------------ the store ------------------------------ *)

Sectors == <<"MarketSurveyAQUA", "MarketSurveyCATTLE", "MarketSurveyFH",
             "MarketSurveyMAIZE", "MarketSurveyPOULTRY", "MarketSurveyQSR">>

SectorKeys == <<"aqua", "cattle", "fh", "maize", "poultry", "qsr">>

SectorIds == 1..6

Collections ==
  {"UsersMIS", "ParticipantPROFILE", "DealerPROFILE", "CoOpPROFILE", "Leverages",
   "Productivity", "A2F", "A2M"} \cup {Sectors[i] : i \in SectorIds}

VALID_COLLECTIONS ==
  {"ParticipantPROFILE", "DealerPROFILE", "CooperativePROFILE", "AgrovetPROFILE",
   "A2F", "A2M"}

\* What a rejected driver call can carry.
Errors == {"MongoNetworkError", "TypeError"}

Clients == {1, 2}

VARIABLES
  db,       \* collection name -> the sequence of its documents, in read order
  connected, \* whether mongoose.connection.db is defined: the connection has opened
  pc,       \* client -> "idle" | "await" | "done": where its request's handler is
  route,    \* client -> the route of its request
  body,     \* client -> req.body of a login request
  param,    \* client -> req.params.collectionName
  qstate,   \* client -> sector -> "idle" | "pending" | "ok" | "fail"
  counts,   \* client -> sector -> the count a fulfilled query returned
  reason,   \* client -> the error Promise.all was rejected with, "" if it was not
  samples,  \* client -> the documents the data-structure awaits returned so far
  resp,     \* client -> the response sent, NoResp before
  logged    \* client -> what the handler passed to console.error, "" if nothing

vars == <<db, connected, pc, route, body, param, qstate, counts, reason, samples, resp, logged>>

NoBody == [username |-> Undefined, password |-> Undefined]

NoResp ==
  [status |-> 0, success |-> "absent", msgKey |-> "", message |-> "",
   kind |-> "none", payload |-> <<>>]

\* res.status(code).json({success: false, message}) and the like.
Failure(code, key, msg) ==
  [status |-> code, success |-> IF key = "message" THEN "false" ELSE "absent",
   msgKey |-> key, message |-> msg, kind |-> "none", payload |-> <<>>]

\* res.json({success: true, <kind>: payload})
Success(kind, payload) ==
  [status |-> 200, success |-> "true", msgKey |-> "", message |-> "",
   kind |-> kind, payload |-> payload]

\* db.collection(name).find({}).toArray(): a collection that does not exist reads as empty.
FindAll(name) == IF name \in DOMAIN db THEN db[name] ELSE <<>>

\* A filter value against a stored value: equality, null matching a missing or
\* null field, and {$ne: x} matching whatever x does not match.
RECURSIVE MatchValue(_, _)
MatchValue(q, d) ==
  CASE q.t = "$ne" -> ~MatchValue(Str(q.s), d)
    [] q.t \in {"undefined", "null"} -> d.t \in {"undefined", "null"}
    [] OTHER -> d = q

MatchDoc(filter, doc) ==
  \A f \in DOMAIN filter : MatchValue(filter[f], Get(doc, f))

\* db.collection(name).findOne(filter): the first matching document, <<>> for null.
FindOne(name, filter) ==
  LET docs == FindAll(name)
      hits == {i \in 1..Len(docs) : MatchDoc(filter, docs[i])}
  IN  IF hits = {} THEN <<>>
      ELSE <<docs[CHOOSE i \in hits : \A j \in hits : i <= j]>>

\* The server as it is once the module has run: mongoose.connect() is
\* pending, so that mongoose.connection.db is not defined yet, the routes are
\* registered and listening, and no request is in flight.
Quiet ==
  /\ connected = FALSE
  /\ pc = [c \in Clients |-> "idle"]
  /\ route = [c \in Clients |-> "none"]
  /\ body = [c \in Clients |-> NoBody]
  /\ param = [c \in Clients |-> ""]
  /\ qstate = [c \in Clients |-> [i \in SectorIds |-> "idle"]]
  /\ counts = [c \in Clients |-> [i \in SectorIds |-> 0]]
  /\ reason = [c \in Clients |-> ""]
  /\ samples = [c \in Clients |-> <<>>]
  /\ resp = [c \in Clients |-> NoResp]
  /\ logged = [c \in Clients |-> ""]

\* The sequences over S of length at most n.
SeqsUpTo(S, n) == UNION {[1..k -> S] : k \in 0..n}

\* A document with the properties of o that are not undefined.
Present(o) == [k \in {k \in DOMAIN o : o[k].t # "undefined"} |-> o[k]]

\* The store in which only collection name holds documents.
Only(name, docs) == [n \in Collections |-> IF n = name THEN docs ELSE <<>>]

\* No handler's continuation is queued behind a settled Promise.all: the
\* microtasks of a turn of the event loop run before the next turn's event.
MicrotasksDrained ==
  \A d \in Clients :
    pc[d] = "await" /\ route[d] = "market-surveys"
      => reason[d] = "" /\ \E i \in SectorIds : qstate[d][i] # "ok"

\* The handler's last step: the response goes out and the handler returns.
Reply(c, r) ==
  /\ pc' = [pc EXCEPT ![c] = "done"]
  /\ resp' = [resp EXCEPT ![c] = r]

\* A slip: the caught error's text is sent as the message.
CatchLeaksError(c, key, msg, e) ==
  /\ Reply(c, Failure(500, key, e))
  /\ logged' = [logged EXCEPT ![c] = e]

\* A catch block: the fixed response, then console.error(error).
Catch(c, key, msg, e) ==
  /\ Reply(c, Failure(500, key, msg))
  /\ logged' = [logged EXCEPT ![c] = e]

\* mongoose.connect() is fulfilled: mongoose.connection.db is defined from
\* here on.  When the connection fails this step is never taken.
Connected ==
  /\ ~connected
  /\ connected' = TRUE
  /\ UNCHANGED <<db, pc, route, body, param, qstate, counts, reason, samples, resp, logged>>

\* A request arrives and its handler starts, in a turn of its own, and runs
\* to its first await.  Without a connection mongoose.connection.db is
\* undefined and the handler's first driver call throws a TypeError inside
\* try before any query is issued: the catch block, whose body has the given
\* key and message, answers in the same turn.
Begin(c, r, key, msg) ==
  /\ pc[c] = "idle"
  /\ MicrotasksDrained
  /\ route' = [route EXCEPT ![c] = r]
  /\ IF connected
     THEN /\ pc' = [pc EXCEPT ![c] = "await"]
          /\ resp' = [resp EXCEPT ![c] = NoResp]
          /\ logged' = [logged EXCEPT ![c] = ""]
     ELSE Catch(c, key, msg, "TypeError")

(* ----------------------------- POST /api/login ------------------------- *)

LoginRequest(c, u, p) ==
  /\ Begin(c, "login", "message", "Server error")
  /\ body' = [body EXCEPT ![c] = [username |-> u, password |-> p]]
  /\ UNCHANGED <<db, connected, param, qstate, counts, reason, samples>>

\* A slip: the stored role is ignored and every user is answered as "user".
LoginUserDefaultRole(user) ==
  JsonObject([username |-> Get(user, "username"),
              role |-> Str(<<"u", "s", "e", "r">>),
              name |-> Or(Get(user, "name"), Get(user, "username"))])

LoginUser(user) ==
  JsonObject([username |-> Get(user, "username"),
              role |-> Or(Get(user, "role"), Str(<<"u", "s", "e", "r">>)),
              name |-> Or(Get(user, "name"), Get(user, "username"))])

LoginResponse(found) ==
  IF found # <<>>
  THEN Success("user", LoginUser(found[1]))
  ELSE Failure(401, "message", "Invalid credentials")

\* A slip: the server keeps the sessions it has opened, and refuses a login
\* with the credentials of a session that is open for another client.
LoginFoundOneSession(c) ==
  /\ pc[c] = "await" /\ route[c] = "login"
  /\ Reply(c, IF \E d \in Clients \ {c} :
                   /\ pc[d] = "done" /\ route[d] = "login"
                   /\ resp[d].success = "true" /\ body[d] = body[c]
              THEN Failure(401, "message", "Invalid credentials")
              ELSE LoginResponse(FindOne("UsersMIS", body[c])))
  /\ UNCHANGED <<db, connected, route, body, param, qstate, counts, reason, samples, logged>>

LoginFound(c) ==
  /\ pc[c] = "await" /\ route[c] = "login"
  /\ Reply(c, LoginResponse(FindOne("UsersMIS", body[c])))
  /\ UNCHANGED <<db, connected, route, body, param, qstate, counts, reason, samples, logged>>

LoginError(c, e) ==
  /\ pc[c] = "await" /\ route[c] = "login"
  /\ Catch(c, "message", "Server error", e)
  /\ UNCHANGED <<db, connected, route, body, param, qstate, counts, reason, samples>>


(* ------------------- GET /api/collections/:collectionName -------------- *)

CollectionRequest(c, name) ==
  /\ Begin(c, "collection", "message", "Error fetching data")
  /\ param' = [param EXCEPT ![c] = name]
  /\ UNCHANGED <<db, connected, body, qstate, counts, reason, samples>>

\* {success: true, data} with the documents as read.
DataResponse(data) == Success("data", [i \in 1..Len(data) |-> JsonObject(data[i])])

\* A guard the source does not have: VALID_COLLECTIONS applied to the route.
CollectionFoundAllowListed(c) ==
  /\ pc[c] = "await" /\ route[c] = "collection"
  /\ Reply(c, IF param[c] \in VALID_COLLECTIONS
              THEN DataResponse(FindAll(param[c]))
              ELSE Failure(403, "message", "Forbidden"))
  /\ UNCHANGED <<db, connected, route, body, param, qstate, counts, reason, samples, logged>>

CollectionFound(c) ==
  /\ pc[c] = "await" /\ route[c] = "collection"
  /\ Reply(c, DataResponse(FindAll(param[c])))
  /\ UNCHANGED <<db, connected, route, body, param, qstate, counts, reason, samples, logged>>

CollectionError(c, e) ==
  /\ pc[c] = "await" /\ route[c] = "collection"
  /\ Catch(c, "message", "Error fetching data", e)
  /\ UNCHANGED <<db, connected, route, body, param, qstate, counts, reason, samples>>

(* --------------------------- GET /api/collections ---------------------- *)

ListRequest(c) ==
  /\ Begin(c, "collections", "message", "Error fetching collections")
  /\ UNCHANGED <<db, connected, body, param, qstate, counts, reason, samples>>

ListFound(c) ==
  /\ pc[c] = "await" /\ route[c] = "collections"
  /\ Reply(c, Success("collections", DOMAIN db))
  /\ UNCHANGED <<db, connected, route, body, param, qstate, counts, reason, samples, logged>>

ListError(c, e) ==
  /\ pc[c] = "await" /\ route[c] = "collections"
  /\ Catch(c, "message", "Error fetching collections", e)
  /\ UNCHANGED <<db, connected, route, body, param, qstate, counts, reason, samples>>

(* --------------------------- GET /api/participants --------------------- *)

ParticipantStrings ==
  {"ID", "ParticipantNAME", "ParticipantGENDER", "WorkingSectorP4P",
   "pAddressDISTRICT", "EthnicCultureBACKGROUND"}

\* {...p, f: String(p.f || '')} for the six fields.
CleanParticipant(item) ==
  [k \in DOMAIN item \cup ParticipantStrings |->
     IF k \in ParticipantStrings
     THEN Str(StringOf(Or(Get(item, k), Str(<<>>))))
     ELSE item[k]]

ParticipantsRequest(c) ==
  /\ Begin(c, "participants", "message", "Error fetching data")
  /\ UNCHANGED <<db, connected, body, param, qstate, counts, reason, samples>>

ParticipantsFound(c) ==
  /\ pc[c] = "await" /\ route[c] = "participants"
  /\ LET data == FindAll("ParticipantPROFILE")
     IN  Reply(c, DataResponse([i \in 1..Len(data) |-> CleanParticipant(data[i])]))
  /\ UNCHANGED <<db, connected, route, body, param, qstate, counts, reason, samples, logged>>

ParticipantsError(c, e) ==
  /\ pc[c] = "await" /\ route[c] = "participants"
  /\ Catch(c, "message", "Error fetching data", e)
  /\ UNCHANGED <<db, connected, route, body, param, qstate, counts, reason, samples>>

(* ---------------------------- GET /api/leverages ----------------------- *)

Unknown == Str(<<"U", "n", "k", "n", "o", "w", "n">>)

ProtoKey == <<"_", "_", "p", "r", "o", "t", "o", "_", "_">>

\* The names every object inherits from Object.prototype as functions, each
\* with the name its function shows: the constructor is Object itself.
InheritedFunctions ==
  (<<"c", "o", "n", "s", "t", "r", "u", "c", "t", "o", "r">> :> <<"O", "b", "j", "e", "c", "t">>)
  @@ [k \in {<<"_", "_", "d", "e", "f", "i", "n", "e", "G", "e", "t", "t", "e", "r", "_", "_">>,
             <<"_", "_", "d", "e", "f", "i", "n", "e", "S", "e", "t", "t", "e", "r", "_", "_">>,
             <<"h", "a", "s", "O", "w", "n", "P", "r", "o", "p", "e", "r", "t", "y">>,
             <<"_", "_", "l", "o", "o", "k", "u", "p", "G", "e", "t", "t", "e", "r", "_", "_">>,
             <<"_", "_", "l", "o", "o", "k", "u", "p", "S", "e", "t", "t", "e", "r", "_", "_">>,
             <<"i", "s", "P", "r", "o", "t", "o", "t", "y", "p", "e", "O", "f">>,
             <<"p", "r", "o", "p", "e", "r", "t", "y", "I", "s", "E", "n", "u", "m", "e", "r", "a", "b", "l", "e">>,
             <<"t", "o", "S", "t", "r", "i", "n", "g">>,
             <<"v", "a", "l", "u", "e", "O", "f">>,
             <<"t", "o", "L", "o", "c", "a", "l", "e", "S", "t", "r", "i", "n", "g">>} |-> k]

\* obj[key] of an object created by {}: its own property, else what it
\* inherits (the __proto__ accessor answers Object.prototype), else undefined.
Member(obj, key) ==
  IF key \in DOMAIN obj THEN obj[key]
  ELSE IF key = ProtoKey THEN [Null EXCEPT !.t = "object"]
  ELSE IF key \in DOMAIN InheritedFunctions
       THEN [Null EXCEPT !.t = "function", !.s = InheritedFunctions[key]]
  ELSE Undefined

\* obj[key] = v for a number or string v: an own property is made or
\* overwritten, except that the __proto__ setter ignores a primitive.
Assign(obj, key, v) == IF key = ProtoKey THEN obj ELSE (key :> v) @@ obj

\* acc.byEntity[key] || 0
Subtotal(byEntity, key) == Or(Member(byEntity, key), Num(0))

\* One call of the reducer.
LeverageStep(acc, item) ==
  LET key == StringOf(Or(Get(item, "Entity"), Unknown))
      amount == NumberOrZero(Get(item, "Amount"))
  IN  [byEntity |-> Assign(acc.byEntity, key, Plus(Subtotal(acc.byEntity, key), amount)),
       totalAmount |-> Plus(acc.totalAmount, amount)]

\* data.reduce(step, {byEntity: {}, totalAmount: 0})
RECURSIVE LeverageStats(_)
LeverageStats(data) ==
  IF data = <<>> THEN [byEntity |-> <<>>, totalAmount |-> Num(0)]
  ELSE LeverageStep(LeverageStats(SubSeq(data, 1, Len(data) - 1)), data[Len(data)])

\* The statistics as res.json serializes them.
LeverageJson(stats) ==
  [byEntity |-> JsonObject(stats.byEntity), totalAmount |-> JsonElem(stats.totalAmount)]

LeveragesRequest(c) ==
  /\ Begin(c, "leverages", "message", "Error fetching data")
  /\ UNCHANGED <<db, connected, body, param, qstate, counts, reason, samples>>

LeveragesFound(c) ==
  /\ pc[c] = "await" /\ route[c] = "leverages"
  /\ Reply(c, Success("data", LeverageJson(LeverageStats(FindAll("Leverages")))))
  /\ UNCHANGED <<db, connected, route, body, param, qstate, counts, reason, samples, logged>>

LeveragesError(c, e) ==
  /\ pc[c] = "await" /\ route[c] = "leverages"
  /\ Catch(c, "message", "Error fetching data", e)
  /\ UNCHANGED <<db, connected, route, body, param, qstate, counts, reason, samples>>

(* -------------------- GET /api/dealers, /api/cooperatives -------------- *)

DealersRequest(c) ==
  /\ Begin(c, "dealers", "message", "Error fetching dealers")
  /\ UNCHANGED <<db, connected, body, param, qstate, counts, reason, samples>>

DealersFound(c) ==
  /\ pc[c] = "await" /\ route[c] = "dealers"
  /\ Reply(c, DataResponse(FindAll("DealerPROFILE")))
  /\ UNCHANGED <<db, connected, route, body, param, qstate, counts, reason, samples, logged>>

DealersError(c, e) ==
  /\ pc[c] = "await" /\ route[c] = "dealers"
  /\ Catch(c, "message", "Error fetching dealers", e)
  /\ UNCHANGED <<db, connected, route, body, param, qstate, counts, reason, samples>>

CooperativesRequest(c) ==
  /\ Begin(c, "cooperatives", "message", "Error fetching data")
  /\ UNCHANGED <<db, connected, body, param, qstate, counts, reason, samples>>

CooperativesFound(c) ==
  /\ pc[c] = "await" /\ route[c] = "cooperatives"
  /\ Reply(c, DataResponse(FindAll("CoOpPROFILE")))
  /\ UNCHANGED <<db, connected, route, body, param, qstate, counts, reason, samples, logged>>

CooperativesError(c, e) ==
  /\ pc[c] = "await" /\ route[c] = "cooperatives"
  /\ Catch(c, "message", "Error fetching data", e)
  /\ UNCHANGED <<db, connected, route, body, param, qstate, counts, reason, samples>>

(* --------------------------- GET /api/productivity --------------------- *)

\* A slip: the growth column skips a document whose growth is 0.
ProductivityStepSkipsZero(acc, item) ==
  [sectors |-> Append(acc.sectors, Get(item, "Sector")),
   baseline |-> Append(acc.baseline, Get(item, "BaseLine")),
   earlyassessment |-> Append(acc.earlyassessment, Get(item, "Early Productivity Assessment")),
   growth |-> IF Truthy(Get(item, "% Growth"))
              THEN Append(acc.growth, Get(item, "% Growth"))
              ELSE acc.growth]

\* One call of the reducer: four pushes.
ProductivityStep(acc, item) ==
  [sectors |-> Append(acc.sectors, Get(item, "Sector")),
   baseline |-> Append(acc.baseline, Get(item, "BaseLine")),
   earlyassessment |-> Append(acc.earlyassessment, Get(item, "Early Productivity Assessment")),
   growth |-> Append(acc.growth, Get(item, "% Growth"))]

RECURSIVE ProductivityData(_)
ProductivityData(data) ==
  IF data = <<>>
  THEN [sectors |-> <<>>, baseline |-> <<>>, earlyassessment |-> <<>>, growth |-> <<>>]
  ELSE ProductivityStep(ProductivityData(SubSeq(data, 1, Len(data) - 1)), data[Len(data)])

\* JSON.stringify of the four arrays.
JsonColumns(cols) ==
  [k \in DOMAIN cols |-> [i \in 1..Len(cols[k]) |-> JsonElem(cols[k][i])]]

ProductivityRequest(c) ==
  /\ Begin(c, "productivity", "message", "Error fetching data")
  /\ UNCHANGED <<db, connected, body, param, qstate, counts, reason, samples>>

ProductivityFound(c) ==
  /\ pc[c] = "await" /\ route[c] = "productivity"
  /\ Reply(c, Success("data", JsonColumns(ProductivityData(FindAll("Productivity")))))
  /\ UNCHANGED <<db, connected, route, body, param, qstate, counts, reason, samples, logged>>

ProductivityError(c, e) ==
  /\ pc[c] = "await" /\ route[c] = "productivity"
  /\ Catch(c, "message", "Error fetching data", e)
  /\ UNCHANGED <<db, connected, route, body, param, qstate, counts, reason, samples>>

(* ------------------------ GET /api/a2f, /api/a2m ----------------------- *)

A2FNumbers ==
  {"ParticipantID", "ParticipantAGE", "LoanAmountAPPLIED", "LoanAmountAPPROVED",
   "LoanPERIOD", "InterestRATE", "InsurancePERIOD", "InsuranceCOVERAGE"}

A2MNumbers ==
  {"ParticipantID", "ParticipantAGE", "MarginalizedSTATUS", "EntityPHONE",
   "QtySOLD", "AmountSOLD"}

\* A slip: Number(item.f) without the || 0.
CleanNumbersNoDefault(item, fields) ==
  [k \in DOMAIN item \cup fields |->
     IF k \in fields THEN ToNumber(Get(item, k)) ELSE item[k]]

\* {...item, f: Number(item.f) || 0} for the designated fields.
CleanNumbers(item, fields) ==
  [k \in DOMAIN item \cup fields |->
     IF k \in fields THEN NumberOrZero(Get(item, k)) ELSE item[k]]

A2FRequest(c) ==
  /\ Begin(c, "a2f", "message", "Error fetching data")
  /\ UNCHANGED <<db, connected, body, param, qstate, counts, reason, samples>>

A2FFound(c) ==
  /\ pc[c] = "await" /\ route[c] = "a2f"
  /\ LET data == FindAll("A2F")
     IN  Reply(c, DataResponse([i \in 1..Len(data) |->
                                 JsonObject(CleanNumbers(data[i], A2FNumbers))]))
  /\ UNCHANGED <<db, connected, route, body, param, qstate, counts, reason, samples, logged>>

A2FError(c, e) ==
  /\ pc[c] = "await" /\ route[c] = "a2f"
  /\ Catch(c, "message", "Error fetching data", e)
  /\ UNCHANGED <<db, connected, route, body, param, qstate, counts, reason, samples>>

A2MRequest(c) ==
  /\ Begin(c, "a2m", "message", "Error fetching data")
  /\ UNCHANGED <<db, connected, body, param, qstate, counts, reason, samples>>

A2MFound(c) ==
  /\ pc[c] = "await" /\ route[c] = "a2m"
  /\ LET data == FindAll("A2M")
     IN  Reply(c, DataResponse([i \in 1..Len(data) |->
                                 JsonObject(CleanNumbers(data[i], A2MNumbers))]))
  /\ UNCHANGED <<db, connected, route, body, param, qstate, counts, reason, samples, logged>>

A2MError(c, e) ==
  /\ pc[c] = "await" /\ route[c] = "a2m"
  /\ Catch(c, "message", "Error fetching data", e)
  /\ UNCHANGED <<db, connected, route, body, param, qstate, counts, reason, samples>>

(* -------------------------- GET /api/market-surveys -------------------- *)

\* The handler runs to its await: the six countDocuments() calls are issued
\* one after the other, none awaited, and Promise.all waits on the six.
\* Without a connection the first of them throws before it is issued, and
\* none is.
SurveysRequest(c) ==
  /\ Begin(c, "market-surveys", "message", "Error fetching data")
  /\ qstate' = IF connected
               THEN [qstate EXCEPT ![c] = [i \in SectorIds |-> "pending"]]
               ELSE qstate
  /\ UNCHANGED <<db, connected, body, param, counts, reason, samples>>

\* A slip: the array is destructured with fh and cattle exchanged.
SurveysResponseSwapped(cnt) ==
  Success("data", [k \in {SectorKeys[i] : i \in SectorIds} |->
                     cnt[CHOOSE i \in SectorIds :
                           SectorKeys[i] = IF k = "fh" THEN "cattle"
                                           ELSE IF k = "cattle" THEN "fh" ELSE k]])

\* {success: true, data: {aqua, cattle, fh, maize, poultry, qsr}}
SurveysResponse(cnt) ==
  Success("data", [k \in {SectorKeys[i] : i \in SectorIds} |->
                     cnt[CHOOSE i \in SectorIds : SectorKeys[i] = k]])

\* Query i is fulfilled with its collection's count.  The handler is not
\* resumed by this step: when the last of the six is fulfilled Promise.all is
\* fulfilled, and the handler's continuation is queued behind it.
SurveyCounted(c, i) ==
  /\ route[c] = "market-surveys" /\ qstate[c][i] = "pending"
  /\ qstate' = [qstate EXCEPT ![c][i] = "ok"]
  /\ counts' = [counts EXCEPT ![c][i] = Len(FindAll(Sectors[i]))]
  /\ UNCHANGED <<db, connected, pc, route, body, param, reason, samples, resp, logged>>

\* Query i is rejected.  The first rejection rejects Promise.all with its
\* error; a later one finds the promise settled.  The handler is not resumed
\* by this step.
SurveyFailed(c, i, e) ==
  /\ route[c] = "market-surveys" /\ qstate[c][i] = "pending"
  /\ qstate' = [qstate EXCEPT ![c][i] = "fail"]
  /\ reason' = [reason EXCEPT ![c] = IF reason[c] = "" THEN e ELSE reason[c]]
  /\ UNCHANGED <<db, connected, pc, route, body, param, counts, samples, resp, logged>>

\* A slip: the handler waits for every query to settle (Promise.allSettled)
\* and sends the counts whatever became of them.
SurveysResumedSettled(c) ==
  /\ pc[c] = "await" /\ route[c] = "market-surveys"
  /\ \A i \in SectorIds : qstate[c][i] \in {"ok", "fail"}
  /\ Reply(c, SurveysResponse(counts[c]))
  /\ UNCHANGED <<db, connected, route, body, param, qstate, counts, reason, samples, logged>>

\* The handler resumes after its await: when Promise.all has been fulfilled
\* with the six counts it sends them, when it has been rejected the handler
\* goes through the catch block with the reason.
SurveysResumed(c) ==
  /\ pc[c] = "await" /\ route[c] = "market-surveys"
  /\ \/ /\ \A i \in SectorIds : qstate[c][i] = "ok"
        /\ Reply(c, SurveysResponse(counts[c]))
        /\ UNCHANGED logged
     \/ /\ reason[c] # ""
        /\ Catch(c, "message", "Error fetching data", reason[c])
  /\ UNCHANGED <<db, connected, route, body, param, qstate, counts, reason, samples>>

(* -------------------------- GET /api/data-structure -------------------- *)

DataStructureRequest(c) ==
  /\ Begin(c, "data-structure", "error", "Error fetching data structure")
  /\ UNCHANGED <<db, connected, body, param, qstate, counts, reason, samples>>

\* Object.keys(doc || {})
KeysOf(found) == IF found = <<>> THEN {} ELSE DOMAIN found[1]

\* {participant: [...], dealer: [...], coop: [...]}: no success property.
DataStructureResponse(found) ==
  [status |-> 200, success |-> "absent", msgKey |-> "", message |-> "",
   kind |-> "keys",
   payload |-> [participant |-> KeysOf(found[1]), dealer |-> KeysOf(found[2]),
                coop |-> KeysOf(found[3])]]

\* The next of the three awaited findOne() calls returns; after the third the
\* handler answers.
DataStructureFound(c) ==
  /\ pc[c] = "await" /\ route[c] = "data-structure"
  /\ LET k == Len(samples[c]) + 1
         found == Append(samples[c], FindOne(<<"ParticipantPROFILE", "DealerPROFILE", "CoOpPROFILE">>[k], <<>>))
     IN  /\ samples' = [samples EXCEPT ![c] = found]
         /\ IF k = 3 THEN Reply(c, DataStructureResponse(found))
                     ELSE UNCHANGED <<pc, resp>>
  /\ UNCHANGED <<db, connected, route, body, param, qstate, counts, reason, logged>>

DataStructureError(c, e) ==
  /\ pc[c] = "await" /\ route[c] = "data-structure"
  /\ Catch(c, "error", "Error fetching data structure", e)
  /\ UNCHANGED <<db, connected, route, body, param, qstate, counts, reason, samples>>

\* The client has its response; the request and response objects are dropped
\* and the client may send another request.  Count queries of the request
\* that are still pending settle unobserved: Promise.all is settled and
\* nothing waits on them.
Finish(c) ==
  /\ pc[c] = "done"
  /\ pc' = [pc EXCEPT ![c] = "idle"]
  /\ route' = [route EXCEPT ![c] = "none"]
  /\ body' = [body EXCEPT ![c] = NoBody]
  /\ param' = [param EXCEPT ![c] = ""]
  /\ qstate' = [qstate EXCEPT ![c] = [i \in SectorIds |-> "idle"]]
  /\ counts' = [counts EXCEPT ![c] = [i \in SectorIds |-> 0]]
  /\ reason' = [reason EXCEPT ![c] = ""]
  /\ samples' = [samples EXCEPT ![c] = <<>>]
  /\ resp' = [resp EXCEPT ![c] = NoResp]
  /\ logged' = [logged EXCEPT ![c] = ""]
  /\ UNCHANGED <<db, connected>>

(* ------------------------- the login specification --------------------- *)

Alice == Str(<<"a", "l">>)
Bob == Str(<<"b", "o">>)
Secret == Str(<<"s", "1">>)
Wrong == Str(<<"w", "2">>)
Admin == Str(<<"a", "d", "m", "i", "n">>)
FullName == Str(<<"A", "l", " ", "B">>)

\* Credential documents, the role and the name of each absent, empty or set.
UserDocs ==
  {Present([username |-> u, password |-> p, role |-> rn[1], name |-> rn[2]]) :
     u \in {Alice, Bob}, p \in {Secret, Wrong},
     rn \in {<<Undefined, Undefined>>, <<Str(<<>>), FullName>>, <<Admin, Str(<<>>)>>,
             <<Admin, FullName>>}}

\* What a JSON body can carry as username and as password.
LoginNames == {Alice, Bob, Undefined, NeOp(<<>>)}
LoginPasswords == {Secret, Wrong, NeOp(<<>>)}

InitLogin ==
  /\ \E users \in SeqsUpTo(UserDocs, MaxDocs) : db = Only("UsersMIS", users)
  /\ Quiet

NextLogin ==
  \/ Connected
  \/ \E u \in LoginNames, p \in LoginPasswords : LoginRequest(1, u, p)
  \/ LoginFound(1)
  \/ \E e \in Errors : LoginError(1, e)
  \/ Finish(1)

SpecLogin == InitLogin /\ [][NextLogin]_vars

(* ---------------------------- claims on login -------------------------- *)

\* The request of client c is a login that has been answered.
LoginDone(c) == pc[c] = "done" /\ route[c] = "login"

\* The credential documents with exactly the username and password of c's body.
Holders(c) ==
  {i \in 1..Len(db["UsersMIS"]) :
     LET d == db["UsersMIS"][i]
     IN  /\ {"username", "password"} \subseteq DOMAIN d
         /\ d["username"] = body[c].username
         /\ d["password"] = body[c].password}

UserRole == Str(<<"u", "s", "e", "r">>)

\* The document has field f with a value that is not empty (not null, "", 0,
\* false or NaN).
HasValue(d, f) ==
  f \in DOMAIN d /\ d[f] \notin {Null, Str(<<>>), Num(0), Bool(FALSE), NaN}

\* C1 as stated: when the collection holds a document with exactly the
\* username and password sent, and the query did not fail, login answers
\* success:true with the stored username, the stored role or "user" if the
\* document has no role field, and the stored name or the username if the
\* document has no name field.
C1_Original ==
  \A c \in Clients :
    (LoginDone(c) /\ logged[c] = "" /\ Holders(c) # {}) =>
      /\ resp[c].status = 200 /\ resp[c].success = "true" /\ resp[c].kind = "user"
      /\ \E i \in Holders(c) :
           LET d == db["UsersMIS"][i]
           IN  resp[c].payload =
                 [username |-> d["username"],
                  role |-> IF "role" \in DOMAIN d THEN d["role"] ELSE UserRole,
                  name |-> IF "name" \in DOMAIN d THEN d["name"] ELSE d["username"]]

\* C1 as amended: the same, with "user" also when the stored role is empty
\* (null, "", 0, false) and the username also when the stored name is empty.
C1_LoginSuccess ==
  \A c \in Clients :
    (LoginDone(c) /\ logged[c] = "" /\ Holders(c) # {}) =>
      /\ resp[c].status = 200 /\ resp[c].success = "true" /\ resp[c].kind = "user"
      /\ \E i \in Holders(c) :
           LET d == db["UsersMIS"][i]
           IN  resp[c].payload =
                 [username |-> d["username"],
                  role |-> IF HasValue(d, "role") THEN d["role"] ELSE UserRole,
                  name |-> IF HasValue(d, "name") THEN d["name"] ELSE d["username"]]

\* A login answered for a pair that the second of two stored documents holds,
\* with a stored role and no stored name.
C1_Witness ==
  /\ LoginDone(1) /\ logged[1] = "" /\ Holders(1) = {2}
  /\ HasValue(db["UsersMIS"][2], "role") /\ ~HasValue(db["UsersMIS"][2], "name")
  /\ resp[1].success = "true"

\* C2 as stated: when the collection holds no document with exactly the
\* username and password sent, login never answers success:true, and unless
\* the query failed it answers 401 {success:false, message:"Invalid credentials"}.
C2_NoMatchRejected ==
  \A c \in Clients :
    (LoginDone(c) /\ Holders(c) = {}) =>
      /\ resp[c].success # "true"
      /\ logged[c] = "" => resp[c] = Failure(401, "message", "Invalid credentials")

\* The same for a body whose username and password are both strings: this
\* part of C2 the code keeps.
C2_StringPairsRejected ==
  \A c \in Clients :
    (LoginDone(c) /\ Holders(c) = {}
       /\ body[c].username.t = "string" /\ body[c].password.t = "string") =>
      /\ resp[c].success # "true"
      /\ logged[c] = "" => resp[c] = Failure(401, "message", "Invalid credentials")

(* ---------------------- the market-surveys specification --------------- *)

\* A collection of n survey documents.
SurveyDocs(n) == [k \in 1..n |-> [_id |-> Num(k)]]

\* Each sector collection is empty or holds MaxDocs documents.
InitSurveys ==
  /\ \E size \in [SectorIds -> {0, MaxDocs}] :
       db = [n \in Collections |->
               IF \E i \in SectorIds : Sectors[i] = n
               THEN SurveyDocs(size[CHOOSE i \in SectorIds : Sectors[i] = n])
               ELSE <<>>]
  /\ Quiet

NextSurveys ==
  \/ Connected
  \/ SurveysRequest(1)
  \/ \E i \in SectorIds : SurveyCounted(1, i)
  \/ \E i \in SectorIds, e \in Errors : SurveyFailed(1, i, e)
  \/ SurveysResumed(1)
  \/ Finish(1)

SpecSurveys == InitSurveys /\ [][NextSurveys]_vars

(* ----------------------- claims on market-surveys ---------------------- *)

SurveysSent(c) == route[c] = "market-surveys" /\ resp[c].status # 0

SurveysFailure == Failure(500, "message", "Error fetching data")

\* C4 as stated: the six queries are started together, a response is sent
\* only after all six have completed, and a response sent after a failure is
\* the 500 failure with no counts.
C4_Original ==
  \A c \in Clients :
    /\ route[c] = "market-surveys" => \A i \in SectorIds : qstate[c][i] # "idle"
    /\ SurveysSent(c) => \A i \in SectorIds : qstate[c][i] \in {"ok", "fail"}
    /\ (SurveysSent(c) /\ \E i \in SectorIds : qstate[c][i] = "fail") =>
         resp[c] = SurveysFailure

\* C4 as amended: with the connection open the six queries are started
\* together, and without it none is started and the request is answered at
\* once with the 500 failure; a response is sent only after all six queries
\* have succeeded or after one of them has failed; a success response is sent
\* only after all six have succeeded, and carries all six counts; a response
\* sent after a query has failed is the 500 failure with no counts, whether
\* the other queries have completed or not; no response carries counts
\* unless all six queries succeeded.
C4_AllOrNothing ==
  \A c \in Clients :
    /\ route[c] = "market-surveys" =>
         \/ connected /\ \A i \in SectorIds : qstate[c][i] # "idle"
         \/ /\ \A i \in SectorIds : qstate[c][i] = "idle"
            /\ pc[c] = "done" /\ resp[c] = SurveysFailure
    /\ SurveysSent(c) =>
         \/ \A i \in SectorIds : qstate[c][i] = "ok"
         \/ \E i \in SectorIds : qstate[c][i] = "fail"
         \/ \A i \in SectorIds : qstate[c][i] = "idle"
    /\ (SurveysSent(c) /\ resp[c].success = "true") =>
         /\ \A i \in SectorIds : qstate[c][i] = "ok"
         /\ DOMAIN resp[c].payload = {SectorKeys[i] : i \in SectorIds}
    /\ (SurveysSent(c) /\ \E i \in SectorIds : qstate[c][i] = "fail") =>
         /\ resp[c] = SurveysFailure
         /\ resp[c].kind = "none" /\ resp[c].payload = <<>>
    /\ (SurveysSent(c) /\ resp[c].kind # "none") =>
         \A i \in SectorIds : qstate[c][i] = "ok"

\* The failure has been sent after one query succeeded and another failed,
\* while a third is still pending.
C4_Witness ==
  /\ resp[1] = SurveysFailure
  /\ qstate[1][1] = "ok" /\ qstate[1][4] = "fail" /\ qstate[1][6] = "pending"

\* C8: a successful response carries exactly the six named counts, each the
\* number of documents of its own sector collection.
C8_SixCounts ==
  \A c \in Clients :
    (SurveysSent(c) /\ resp[c].success = "true") =>
      /\ resp[c].status = 200 /\ resp[c].kind = "data"
      /\ DOMAIN resp[c].payload = {"aqua", "cattle", "fh", "maize", "poultry", "qsr"}
      /\ resp[c].payload["aqua"] = Len(db["MarketSurveyAQUA"])
      /\ resp[c].payload["cattle"] = Len(db["MarketSurveyCATTLE"])
      /\ resp[c].payload["fh"] = Len(db["MarketSurveyFH"])
      /\ resp[c].payload["maize"] = Len(db["MarketSurveyMAIZE"])
      /\ resp[c].payload["poultry"] = Len(db["MarketSurveyPOULTRY"])
      /\ resp[c].payload["qsr"] = Len(db["MarketSurveyQSR"])

\* A success whose counts differ from sector to sector, one of them 0 for an
\* empty collection.
C8_Witness ==
  /\ SurveysSent(1) /\ resp[1].success = "true"
  /\ resp[1].payload["cattle"] = 0 /\ resp[1].payload["fh"] = MaxDocs
  /\ resp[1].payload["aqua"] = MaxDocs /\ resp[1].payload["qsr"] = 0

(* ------------------------ the leverages specification ------------------ *)

\* Documents with and without an entity, two of the entities named as
\* members of Object.prototype are, and amounts of every type, among them
\* the number 0.1 and the string "0.2", whose sum is no decimal fraction of
\* few digits, and a string that opens with a byte order mark.
LeverageDocs ==
  {Present([Entity |-> e, Amount |-> a]) :
     e \in {Undefined, Str(<<"A">>), Str(<<"B">>), Unknown,
            Str(<<"c", "o", "n", "s", "t", "r", "u", "c", "t", "o", "r">>),
            Str(ProtoKey)},
     a \in {Undefined, Null, Bool(TRUE), Num(0), Num(MaxNum), Num(0 - 1),
            StringToNumber(<<"0", ".", "1">>), Str(<<"0", ".", "2">>),
            Str(<<"2">>), Str(<<" ", "1", "0">>), Str(<<"a", "1">>),
            Str(<<"U+FEFF", "2">>), Str(<<"0", "x", "1", "0">>)}}

InitLeverages ==
  /\ \E docs \in SeqsUpTo(LeverageDocs, MaxDocs) : db = Only("Leverages", docs)
  /\ Quiet

NextLeverages ==
  \/ Connected
  \/ LeveragesRequest(1)
  \/ LeveragesFound(1)
  \/ \E e \in Errors : LeveragesError(1, e)
  \/ Finish(1)

SpecLeverages == InitLeverages /\ [][NextLeverages]_vars

(* -------------------------- claims on leverages ------------------------ *)

\* A numeral: an optional sign and at least one decimal digit.
IsNumeral(cs) ==
  /\ cs # <<>>
  /\ LET digits == IF cs[1] \in {"-", "+"} THEN Tail(cs) ELSE cs
     IN  digits # <<>> /\ \A i \in 1..Len(digits) : IsDigit(digits[i])

RECURSIVE Pow10(_)
Pow10(k) == IF k = 0 THEN 1 ELSE 10 * Pow10(k - 1)

RECURSIVE SumOver(_, _)
\* The sum of f[i] over the indices in S.
SumOver(f, S) ==
  IF S = {} THEN 0
  ELSE LET i == CHOOSE i \in S : TRUE IN f[i] + SumOver(f, S \ {i})

\* The value of a numeral, digit by digit from the left.
NumeralValue(cs) ==
  LET digits == IF cs[1] \in {"-", "+"} THEN Tail(cs) ELSE cs
      n == Len(digits)
      magnitude == SumOver([i \in 1..n |-> DigitVal(digits[i]) * Pow10(n - i)], 1..n)
  IN  IF cs[1] = "-" THEN 0 - magnitude ELSE magnitude

RECURSIVE Total(_, _)
\* The sum of the numbers f[i] over the indices in S, added to 0 one after
\* the other in the order of the indices.
Total(f, S) ==
  IF S = {} THEN Num(0)
  ELSE LET last == CHOOSE i \in S : \A j \in S : j <= i
       IN  NumberPlus(Total(f, S \ {last}), f[last])

\* A stored Amount coerced to a number, a missing or non-numeric one counting
\* as 0; the boolean true is read as Number() reads it, as 1.
AmountOf(d) == NumberOrZero(Get(d, "Amount"))

\* The entity a document is counted under: its Entity, "Unknown" without one.
EntityOf(d) == IF HasValue(d, "Entity") THEN d["Entity"].s ELSE Unknown.s

\* The entity names that are names of members of Object.prototype.
InheritedNames == DOMAIN InheritedFunctions \cup {ProtoKey}

LeveragesAnswered(c) ==
  pc[c] = "done" /\ route[c] = "leverages" /\ resp[c].success = "true"

\* C6: totalAmount is the sum of the amounts of all documents, a non-numeric
\* or missing Amount counting as 0, and byEntity holds for each entity the
\* sum over the documents of that entity.
C6_Sums ==
  \A c \in Clients :
    LeveragesAnswered(c) =>
      LET docs == db["Leverages"]
          amount == [i \in 1..Len(docs) |-> AmountOf(docs[i])]
          stats == resp[c].payload
      IN  /\ stats.totalAmount = Total(amount, 1..Len(docs))
          /\ DOMAIN stats.byEntity = {EntityOf(docs[i]) : i \in 1..Len(docs)}
          /\ \A e \in DOMAIN stats.byEntity :
               stats.byEntity[e] =
                 Total(amount, {i \in 1..Len(docs) : EntityOf(docs[i]) = e})

\* What holds of C6: the total is the sum whatever the entities are called,
\* and the subtotal of every entity whose name is not one of a member of
\* Object.prototype is the sum over its documents.
C6_OwnNamesSummed ==
  \A c \in Clients :
    LeveragesAnswered(c) =>
      LET docs == db["Leverages"]
          amount == [i \in 1..Len(docs) |-> AmountOf(docs[i])]
          stats == resp[c].payload
      IN  /\ stats.totalAmount = Total(amount, 1..Len(docs))
          /\ DOMAIN stats.byEntity \ InheritedNames =
               {EntityOf(docs[i]) : i \in 1..Len(docs)} \ InheritedNames
          /\ \A e \in DOMAIN stats.byEntity \ InheritedNames :
               stats.byEntity[e] =
                 Total(amount, {i \in 1..Len(docs) : EntityOf(docs[i]) = e})

(* ----------------------- the a2f / a2m specification ------------------- *)

\* Strings in the other forms of a numeric literal, and some that fall
\* short of one: a fraction, an exponent, a prefixed integer, an infinity,
\* white space of ASCII and beyond it, and characters beyond ASCII that are
\* no white space.
CoerceForms ==
  {<<"1", ".", "5">>,
   <<".", "5">>,
   <<"2", ".">>,
   <<"1", "e", "1">>,
   <<"1", "e">>,
   <<"0", "x", "1", "0">>,
   <<"0", "b", "1", "1">>,
   <<"0", "o", "7">>,
   <<"I", "n", "f", "i", "n", "i", "t", "y">>,
   <<"-", "I", "n", "f", "i", "n", "i", "t", "y">>,
   <<"\t", "2">>,
   <<"U+FEFF", "2">>,
   <<"2", "U+3000">>,
   <<"U+0085", "2">>,
   <<"U+00E9", "2">>,
   <<"0", ".", "1">>}

\* What a designated field can hold; Undefined stands for a missing field.
\* The strings are those of a digit, zero, the sign, the space and a letter,
\* and the forms.
FieldValues ==
  {Undefined, Null, Bool(TRUE), Bool(FALSE)}
    \cup {Num(k) : k \in (0 - 1)..MaxNum}
    \cup {Str(cs) : cs \in SeqsUpTo({"0", "2", "-", " ", "a"}, MaxStrLen) \cup CoerceForms}

\* A collection of n documents, each with the designated fields and a field
\* the route passes through: in the one at position at field f holds v, and
\* every other designated field holds w.
FieldDocs(fields, f, v, w, n, at) ==
  [i \in 1..n |->
     Present([k \in fields \cup {"Remarks"} |->
                IF k = f /\ i = at THEN v ELSE IF k \in fields THEN w ELSE Str(<<"x">>)])]

InitCoerce ==
  /\ \E r \in {"A2F", "A2M"} :
       LET fields == IF r = "A2F" THEN A2FNumbers ELSE A2MNumbers
       IN  \E f \in fields, v \in FieldValues, w \in {Undefined, Str(<<"2">>), Str(InfinityText)},
              n \in 0..MaxDocs, at \in 1..MaxDocs :
             /\ at <= n \/ (n = 0 /\ at = 1)
             /\ db = Only(r, FieldDocs(fields, f, v, w, n, at))
  /\ Quiet

NextCoerce ==
  \/ Connected
  \/ A2FRequest(1)
  \/ A2FFound(1)
  \/ \E e \in Errors : A2FError(1, e)
  \/ A2MRequest(1)
  \/ A2MFound(1)
  \/ \E e \in Errors : A2MError(1, e)
  \/ Finish(1)

SpecCoerce == InitCoerce /\ [][NextCoerce]_vars

(* -------------------------- claims on a2f and a2m ---------------------- *)

CoerceAnswered(c) ==
  pc[c] = "done" /\ route[c] \in {"a2f", "a2m"} /\ resp[c].success = "true"

CoerceSource(c) == IF route[c] = "a2f" THEN db["A2F"] ELSE db["A2M"]

CoerceFields(c) == IF route[c] = "a2f" THEN A2FNumbers ELSE A2MNumbers

RECURSIVE Unspaced(_)
\* cs without the spaces at its two ends.
Unspaced(cs) ==
  IF cs # <<>> /\ Head(cs) = " " THEN Unspaced(Tail(cs))
  ELSE IF cs # <<>> /\ cs[Len(cs)] = " " THEN Unspaced(SubSeq(cs, 1, Len(cs) - 1))
  ELSE cs

\* The positive double of biased exponent x whose fraction has the upper 26
\* bits hi and the lower 26 bits lo.
Binary64(x, hi, lo) == [t |-> "number", n |-> 1, x |-> x, hi |-> hi, lo |-> lo, s |-> <<>>]

\* The number each of the forms holds, as JavaScript reads it: 1.5 is
\* 3 * 2^-1, 0.5 is 2^-1, 0.1 is the double 0x3FB999999999999A, and NaN
\* stands for a form that holds no number.
FormNumber ==
  (<<"1", ".", "5">> :> Binary64(1023, 33554432, 0))
    @@ (<<".", "5">> :> Binary64(1022, 0, 0))
    @@ (<<"2", ".">> :> Binary64(1024, 0, 0))
    @@ (<<"1", "e", "1">> :> Binary64(1026, 16777216, 0))
    @@ (<<"1", "e">> :> NaN)
    @@ (<<"0", "x", "1", "0">> :> Binary64(1027, 0, 0))
    @@ (<<"0", "b", "1", "1">> :> Binary64(1024, 33554432, 0))
    @@ (<<"0", "o", "7">> :> Binary64(1025, 50331648, 0))
    @@ (<<"I", "n", "f", "i", "n", "i", "t", "y">> :> Inf(1))
    @@ (<<"-", "I", "n", "f", "i", "n", "i", "t", "y">> :> Inf(0 - 1))
    @@ (<<"\t", "2">> :> Binary64(1024, 0, 0))
    @@ (<<"U+FEFF", "2">> :> Binary64(1024, 0, 0))
    @@ (<<"2", "U+3000">> :> Binary64(1024, 0, 0))
    @@ (<<"U+0085", "2">> :> NaN)
    @@ (<<"U+00E9", "2">> :> NaN)
    @@ (<<"0", ".", "1">> :> Binary64(1019, 40265318, 26843546))

\* A string holding a number: one of the forms that do, or a numeral with
\* spaces around it.
NumericString(v) ==
  /\ v.t = "string"
  /\ IF v.s \in DOMAIN FormNumber THEN FormNumber[v.s] # NaN ELSE IsNumeral(Unspaced(v.s))

\* The number a numeric string holds.
NumberIn(v) ==
  IF v.s \in DOMAIN FormNumber THEN FormNumber[v.s] ELSE Num(NumeralValue(Unspaced(v.s)))

\* A stored value that is not a number and not a string holding one.
NonNumeric(v) ==
  \/ v.t \in {"null", "boolean"}
  \/ v.t = "string" /\ ~NumericString(v)

\* C7 as stated: in every document of the response each designated field is 0
\* when the stored value is missing or non-numeric, and the number when the
\* stored value is a valid numeric string.
C7_Original ==
  \A c \in Clients :
    CoerceAnswered(c) =>
      /\ Len(resp[c].payload) = Len(CoerceSource(c))
      /\ \A i \in 1..Len(CoerceSource(c)) : \A f \in CoerceFields(c) :
           LET v == Get(CoerceSource(c)[i], f)
               out == resp[c].payload[i]
           IN  /\ f \in DOMAIN out
               /\ (v.t = "undefined" \/ NonNumeric(v)) => out[f] = Num(0)
               /\ NumericString(v) => out[f] = NumberIn(v)

\* C7 as amended: a missing field, null, false and a string that holds no
\* number are 0 in the response; the boolean true is 1; a string that holds
\* a number, white space around it set aside, is that number, to the nearest
\* double, and is null when that number is an infinity.
C7_Coerced ==
  \A c \in Clients :
    CoerceAnswered(c) =>
      /\ Len(resp[c].payload) = Len(CoerceSource(c))
      /\ \A i \in 1..Len(CoerceSource(c)) : \A f \in CoerceFields(c) :
           LET v == Get(CoerceSource(c)[i], f)
               out == resp[c].payload[i]
           IN  /\ f \in DOMAIN out
               /\ (v.t = "undefined" \/ (NonNumeric(v) /\ v # Bool(TRUE))) => out[f] = Num(0)
               /\ v = Bool(TRUE) => out[f] = Binary64(1023, 0, 0)
               /\ NumericString(v) =>
                    out[f] = IF NumberIn(v).t = "infinity" THEN Null ELSE NumberIn(v)

\* An answer for a document in which one designated field holds the boolean
\* true, answered as 1, and the others the string "Infinity", answered as
\* null; in the document before it they are all "Infinity".
C7_Witness ==
  /\ CoerceAnswered(1) /\ route[1] = "a2m"
  /\ Len(db["A2M"]) = 2
  /\ Get(db["A2M"][2], "MarginalizedSTATUS") = Bool(TRUE)
  /\ Get(db["A2M"][2], "QtySOLD") = Str(<<"I", "n", "f", "i", "n", "i", "t", "y">>)
  /\ resp[1].payload[2]["MarginalizedSTATUS"] = Binary64(1023, 0, 0)
  /\ resp[1].payload[2]["QtySOLD"] = Null
  /\ resp[1].payload[1]["MarginalizedSTATUS"] = Null

(* ----------------------- the productivity specification ---------------- *)

Maize == Str(<<"M", "a", "i", "z", "e">>)
Poultry == Str(<<"P", "o", "u", "l", "t", "r", "y">>)

ProductivityDocs ==
  {Present(("Sector" :> sec) @@ ("BaseLine" :> base)
             @@ ("Early Productivity Assessment" :> early) @@ ("% Growth" :> growth)) :
     sec \in {Maize, Poultry}, base \in {Num(0), Num(MaxNum)},
     early \in {Num(1), Undefined}, growth \in {Num(0), Num(20)}}

InitProductivity ==
  /\ \E docs \in SeqsUpTo(ProductivityDocs, MaxDocs) : db = Only("Productivity", docs)
  /\ Quiet

NextProductivity ==
  \/ Connected
  \/ ProductivityRequest(1)
  \/ ProductivityFound(1)
  \/ \E e \in Errors : ProductivityError(1, e)
  \/ Finish(1)

SpecProductivity == InitProductivity /\ [][NextProductivity]_vars

(* ------------------------- claims on productivity ---------------------- *)

ProductivityAnswered(c) ==
  pc[c] = "done" /\ route[c] = "productivity" /\ resp[c].success = "true"

\* The column of the response that carries each field.
ProductivityColumn ==
  ("Sector" :> "sectors") @@ ("BaseLine" :> "baseline")
    @@ ("Early Productivity Assessment" :> "earlyassessment") @@ ("% Growth" :> "growth")

\* C10: the response carries exactly the four sequences, each as long as the
\* collection, and at every index the four values are the four fields of the
\* document at that index in read order.
C10_Columns ==
  \A c \in Clients :
    ProductivityAnswered(c) =>
      LET docs == db["Productivity"]
          cols == resp[c].payload
      IN  /\ DOMAIN cols = {"sectors", "baseline", "earlyassessment", "growth"}
          /\ \A k \in DOMAIN cols : Len(cols[k]) = Len(docs)
          /\ \A i \in 1..Len(docs) : \A f \in DOMAIN docs[i] :
               cols[ProductivityColumn[f]][i] = docs[i][f]

\* The example of the specification's section 8, with MaxNum for its 10: two
\* documents, the second with a growth of 0.
C10_Witness ==
  /\ ProductivityAnswered(1)
  /\ Len(db["Productivity"]) = 2
  /\ resp[1].payload["sectors"] = <<Maize, Poultry>>
  /\ resp[1].payload["baseline"] = <<Num(MaxNum), Num(0)>>
  /\ resp[1].payload["growth"] = <<Num(20), Num(0)>>

(* ------------------- the collection-by-name specification -------------- *)

GenericDocs ==
  {[_id |-> Num(1)], [_id |-> Num(2), Remarks |-> Str(<<"a">>)],
   [username |-> Alice, password |-> Secret]}

InitCollections ==
  /\ \E name \in Collections, docs \in SeqsUpTo(GenericDocs, MaxDocs) :
       db = Only(name, docs)
  /\ Quiet

NextCollections ==
  \/ Connected
  \/ \E name \in Collections \cup {"NoSuchCollection"} : CollectionRequest(1, name)
  \/ CollectionFound(1)
  \/ \E e \in Errors : CollectionError(1, e)
  \/ Finish(1)

SpecCollections == InitCollections /\ [][NextCollections]_vars

(* ---------------------- claims on collection-by-name ------------------- *)

CollectionAnswered(c) ==
  pc[c] = "done" /\ route[c] = "collection" /\ logged[c] = ""

\* C9: for every existing collection named in the path, on or off the
\* VALID_COLLECTIONS list, the credential collection included, the answer is
\* success:true with every document of the collection, as many as it holds.
C9_AnyCollection ==
  \A c \in Clients :
    (CollectionAnswered(c) /\ param[c] \in DOMAIN db) =>
      /\ resp[c].status = 200 /\ resp[c].success = "true" /\ resp[c].kind = "data"
      /\ Len(resp[c].payload) = Len(db[param[c]])
      /\ \A i \in 1..Len(db[param[c]]) : resp[c].payload[i] = db[param[c]][i]

\* The credential collection, which is not on the list, read in full.
C9_Witness ==
  /\ CollectionAnswered(1) /\ param[1] = "UsersMIS"
  /\ param[1] \notin VALID_COLLECTIONS
  /\ Len(db["UsersMIS"]) = 2
  /\ resp[1].success = "true" /\ Len(resp[1].payload) = 2
  /\ "password" \in DOMAIN resp[1].payload[2]

(* --------------------------- the whole server -------------------------- *)

SampleStore ==
  [n \in Collections |->
     CASE n = "UsersMIS" ->
            <<[username |-> Alice, password |-> Secret, role |-> Admin],
              [username |-> Bob, password |-> Wrong, name |-> FullName]>>
       [] n = "ParticipantPROFILE" ->
            <<[ID |-> Num(12), ParticipantNAME |-> FullName, ParticipantGENDER |-> Null]>>
       [] n = "DealerPROFILE" -> <<[_id |-> Num(1), DealerNAME |-> Str(<<"D">>)]>>
       [] n = "Leverages" ->
            <<[Entity |-> Str(<<"A">>), Amount |-> Str(<<"2">>)], [Amount |-> Num(MaxNum)]>>
       [] n = "Productivity" -> <<("Sector" :> Maize) @@ ("% Growth" :> Num(20))>>
       [] n = "A2F" -> <<[ParticipantID |-> Str(<<"2">>), LoanPERIOD |-> Str(<<"a">>)]>>
       [] n = "A2M" -> <<[ParticipantID |-> Num(1), MarginalizedSTATUS |-> Bool(TRUE)]>>
       [] n = "MarketSurveyAQUA" -> SurveyDocs(MaxDocs)
       [] n = "MarketSurveyQSR" -> SurveyDocs(1)
       [] OTHER -> <<>>]

\* Every step the server can take for client c, its driver calls failing
\* with the errors in faults, at most cap of the count queries of a request.
Serve(c, faults, cap) ==
  \/ \E u \in LoginNames, p \in LoginPasswords : LoginRequest(c, u, p)
  \/ LoginFound(c)
  \/ \E e \in faults : LoginError(c, e)
  \/ \E name \in {"UsersMIS", "A2F", "NoSuchCollection"} : CollectionRequest(c, name)
  \/ CollectionFound(c)
  \/ \E e \in faults : CollectionError(c, e)
  \/ ListRequest(c)
  \/ ListFound(c)
  \/ \E e \in faults : ListError(c, e)
  \/ ParticipantsRequest(c)
  \/ ParticipantsFound(c)
  \/ \E e \in faults : ParticipantsError(c, e)
  \/ LeveragesRequest(c)
  \/ LeveragesFound(c)
  \/ \E e \in faults : LeveragesError(c, e)
  \/ SurveysRequest(c)
  \/ \E i \in SectorIds : SurveyCounted(c, i)
  \/ \E i \in SectorIds, e \in faults :
       Cardinality({j \in SectorIds : qstate[c][j] = "fail"}) < cap /\ SurveyFailed(c, i, e)
  \/ SurveysResumed(c)
  \/ DealersRequest(c)
  \/ DealersFound(c)
  \/ \E e \in faults : DealersError(c, e)
  \/ CooperativesRequest(c)
  \/ CooperativesFound(c)
  \/ \E e \in faults : CooperativesError(c, e)
  \/ ProductivityRequest(c)
  \/ ProductivityFound(c)
  \/ \E e \in faults : ProductivityError(c, e)
  \/ DataStructureRequest(c)
  \/ DataStructureFound(c)
  \/ \E e \in faults : DataStructureError(c, e)
  \/ A2FRequest(c)
  \/ A2FFound(c)
  \/ \E e \in faults : A2FError(c, e)
  \/ A2MRequest(c)
  \/ A2MFound(c)
  \/ \E e \in faults : A2MError(c, e)
  \/ Finish(c)

\* One client, every route, each driver call failing with either error.
InitRoutes ==
  /\ db \in {[n \in Collections |-> <<>>], SampleStore}
  /\ Quiet

NextRoutes == Connected \/ Serve(1, Errors, Len(Sectors))

SpecRoutes == InitRoutes /\ [][NextRoutes]_vars

\* Two clients, their requests to every route interleaved in every way.
Init ==
  /\ db = SampleStore
  /\ Quiet

Next == Connected \/ \E c \in Clients : Serve(c, {"MongoNetworkError"}, MaxFailures)

Spec == Init /\ [][Next]_vars

(* ------------------------ claims on the whole server ------------------- *)

\* The body each route's catch block sends.
RouteFailure(r) ==
  CASE r = "login" -> [success |-> "false", msgKey |-> "message", message |-> "Server error"]
    [] r = "collections" ->
         [success |-> "false", msgKey |-> "message", message |-> "Error fetching collections"]
    [] r = "dealers" ->
         [success |-> "false", msgKey |-> "message", message |-> "Error fetching dealers"]
    [] r = "data-structure" ->
         [success |-> "absent", msgKey |-> "error", message |-> "Error fetching data structure"]
    [] OTHER -> [success |-> "false", msgKey |-> "message", message |-> "Error fetching data"]

\* C3: on every route, once a query or the shaping has thrown, the response
\* is HTTP 500 with the route's fixed body, whichever error it was: the body
\* carries nothing of the error and no data; the error goes to the log only.
C3_FixedFailure ==
  \A c \in Clients :
    (logged[c] # "") =>
      /\ logged[c] \in Errors
      /\ resp[c].status = 500
      /\ resp[c].success = RouteFailure(route[c]).success
      /\ resp[c].msgKey = RouteFailure(route[c]).msgKey
      /\ resp[c].message = RouteFailure(route[c]).message
      /\ resp[c].message \notin Errors
      /\ resp[c].kind = "none" /\ resp[c].payload = <<>>

\* A request that failed after two of its three reads had succeeded, answered
\* with its route's body.
C3_Witness ==
  /\ route[1] = "data-structure" /\ Len(samples[1]) = 2
  /\ logged[1] = "TypeError" /\ resp[1].status = 500
  /\ resp[1].msgKey = "error"

\* What the first request the server gets is answered when it is a login with
\* body b, on the sample store: its first credential document holds "al"
\* with "s1" and the role "admin", its second "bo" with "w2" and a name, and
\* the operator {$ne: ""} in the place of a string matches either.
FirstLogin(b) ==
  IF b.username \in {Alice, NeOp(<<>>)} /\ b.password \in {Secret, NeOp(<<>>)}
  THEN [status |-> 200, success |-> "true", msgKey |-> "", message |-> "", kind |-> "user",
        payload |-> [username |-> Alice, role |-> Admin, name |-> Alice]]
  ELSE IF b.username \in {Bob, NeOp(<<>>)} /\ b.password \in {Wrong, NeOp(<<>>)}
  THEN [status |-> 200, success |-> "true", msgKey |-> "", message |-> "", kind |-> "user",
        payload |-> [username |-> Bob, role |-> UserRole, name |-> FullName]]
  ELSE [status |-> 401, success |-> "false", msgKey |-> "message",
        message |-> "Invalid credentials", kind |-> "none", payload |-> <<>>]

\* An answered login whose query did not fail has the answer it would have
\* had as the first request, whatever was requested before it and whatever
\* is in flight beside it; so two such logins with the same body agree.
LoginIndependent ==
  /\ \A c \in Clients :
       (LoginDone(c) /\ logged[c] = "") => resp[c] = FirstLogin(body[c])
  /\ \A c, d \in Clients :
       (LoginDone(c) /\ LoginDone(d) /\ body[c] = body[d]
          /\ logged[c] = "" /\ logged[d] = "") => resp[c] = resp[d]

\* C5: no step of any handler, successful or failed, in any interleaving,
\* changes the contents of any collection, and nothing a request leaves
\* behind changes the outcome of a login.
C5_ReadOnly ==
  [][db' = db /\ LoginIndependent']_vars

\* Client 2's login is answered with success while client 1, whose earlier
\* login with the same body succeeded too, still holds its answer, and the
\* store holds documents.
C5_Witness ==
  /\ LoginDone(1) /\ LoginDone(2) /\ body[1] = body[2]
  /\ resp[1].success = "true" /\ resp[2].success = "true"
  /\ db = SampleStore

====
